---- MODULE Spec2Model ----
(***************************************************************************)
(* dns-redirect: a DNS server that answers A/AAAA/ANY queries with a CNAME *)
(* built from the first regex replacement that matches the query name, and *)
(* with NXDOMAIN otherwise (src/src/main.rs).                               *)
(*                                                                         *)
(* Strings are sequences of one-character strings.  A DNS name is a        *)
(* sequence of labels; a label is a string.                                *)
(***************************************************************************)
EXTENDS Integers, Sequences, FiniteSets, TLC

VARIABLES
    pc,          \* where main() is: "start", "read", "loaded", "running", "exit_err"
    configFile,  \* the configuration file on disk (an input, never written)
    json,        \* the text main() read from the file, or None
    config,      \* the Config load_from_json returned, or None
    socketBound, \* whether UdpSocket::bind has succeeded
    handler,     \* the DomainConversionHandler of the server, or None
    tasks        \* the request-handling tasks of the server, by task id

vars == <<pc, configFile, json, config, socketBound, handler, tasks>>

\* Option: None, or Some(v)
None == [some |-> FALSE]

Some(v) == [some |-> TRUE, v |-> v]

(***************************************************************************)
(* Bounds of the model.                                                    *)
(***************************************************************************)
\* longest list of replacements in a configuration file
MaxRules == 2
\* most labels in a query name
MaxLabels == 2
\* the same two, for the specification with two concurrent tasks
MaxConcRules == 1
MaxConcLabels == 1

(***************************************************************************)
(* Strings                                                                 *)
(***************************************************************************)
Digits == <<"0", "1", "2", "3", "4", "5", "6", "7", "8", "9">>

\* usize::to_string
RECURSIVE IndexToString(_)
IndexToString(n) ==
    IF n < 10 THEN <<Digits[n + 1]>>
    ELSE IndexToString(n \div 10) \o <<Digits[(n % 10) + 1]>>

ToLowerChar(c) ==
    CASE c = "A" -> "a"
      [] c = "B" -> "b"
      [] OTHER -> c

RECURSIVE ToLowerLabel(_)
ToLowerLabel(l) ==
    IF l = <<>> THEN <<>> ELSE <<ToLowerChar(Head(l))>> \o ToLowerLabel(Tail(l))

\* LowerName: the name with every label lowercased
LowerNameIdentity(labels) == labels

RECURSIVE LowerNameFrom(_)
LowerNameFrom(labels) ==
    IF labels = <<>> THEN <<>>
    ELSE <<ToLowerLabel(Head(labels))>> \o LowerNameFrom(Tail(labels))

\* Name::to_utf8 of a name read from the wire (always fully qualified):
\* the labels, each followed by a dot; the root is "."
RECURSIVE JoinLabels(_)
JoinLabels(labels) ==
    IF labels = <<>> THEN <<>>
    ELSE Head(labels) \o <<".">> \o JoinLabels(Tail(labels))

ToUtf8(labels) == IF labels = <<>> THEN <<".">> ELSE JoinLabels(labels)

\* Regular expressions.  A pattern is written as a sequence of tokens, one
\* per piece of regex syntax: "^", "$", ".*", "(.*)", ".?", "\\." (an
\* escaped dot), a letter, "(b)?" (an optional group) and "(" (a group
\* that is never closed, which regex::Regex::new rejects).
Elem(k, c, g) == [k |-> k, c |-> c, g |-> g]

\* regex::Regex::new: the program of the pattern, its groups numbered from
\* 1 in the order they open, or an error
RECURSIVE ParseTokens(_, _, _)
ParseTokens(toks, prog, ngroups) ==
    IF toks = <<>> THEN [ok |-> TRUE, prog |-> prog, ngroups |-> ngroups]
    ELSE LET t == Head(toks)
             r == Tail(toks)
         IN CASE t = "(" -> [ok |-> FALSE, prog |-> <<>>, ngroups |-> 0]
              [] t = "^" -> ParseTokens(r, Append(prog, Elem("bol", "", 0)), ngroups)
              [] t = "$" -> ParseTokens(r, Append(prog, Elem("eol", "", 0)), ngroups)
              [] t = ".*" -> ParseTokens(r, Append(prog, Elem("star", "", 0)), ngroups)
              [] t = "(.*)" ->
                   ParseTokens(r, Append(prog, Elem("star", "", ngroups + 1)), ngroups + 1)
              [] t = ".?" -> ParseTokens(r, Append(prog, Elem("optany", "", 0)), ngroups)
              [] t = "\\." -> ParseTokens(r, Append(prog, Elem("lit", ".", 0)), ngroups)
              [] t = "(b)?" ->
                   ParseTokens(r, Append(prog, Elem("optlit", "b", ngroups + 1)), ngroups + 1)
              [] OTHER -> ParseTokens(r, Append(prog, Elem("lit", t, 0)), ngroups)

RegexNew(src) == ParseTokens(src, <<>>, 0)

Fail == [ok |-> FALSE]

\* The leftmost-first match of prog against s from position i (the number
\* of characters consumed): greedy pieces try their longest alternative
\* first.  caps[g] is Some(group g's text), or None while it has not taken part.
RECURSIVE MatchHere(_, _, _, _)
RECURSIVE MatchStar(_, _, _, _, _, _)
MatchHere(prog, s, i, caps) ==
    IF prog = <<>> THEN [ok |-> TRUE, caps |-> caps, end |-> i]
    ELSE LET e == Head(prog)
             r == Tail(prog)
         IN CASE e.k = "bol" -> IF i = 0 THEN MatchHere(r, s, i, caps) ELSE Fail
              [] e.k = "eol" -> IF i = Len(s) THEN MatchHere(r, s, i, caps) ELSE Fail
              [] e.k = "lit" ->
                   IF i < Len(s) /\ s[i + 1] = e.c
                   THEN MatchHere(r, s, i + 1, caps) ELSE Fail
              [] e.k = "optany" ->
                   LET one == IF i < Len(s) THEN MatchHere(r, s, i + 1, caps) ELSE Fail
                   IN IF one.ok THEN one ELSE MatchHere(r, s, i, caps)
              [] e.k = "optlit" ->
                   LET one == IF i < Len(s) /\ s[i + 1] = e.c
                              THEN MatchHere(r, s, i + 1, [caps EXCEPT ![e.g] = Some(<<e.c>>)])
                              ELSE Fail
                   IN IF one.ok THEN one ELSE MatchHere(r, s, i, caps)
              [] e.k = "star" -> MatchStar(e, r, s, i, Len(s) - i, caps)

\* .* or (.*) taking n characters, then n - 1, ... then none
MatchStar(e, r, s, i, n, caps) ==
    LET taken == IF e.g = 0 THEN caps
                 ELSE [caps EXCEPT ![e.g] = Some(SubSeq(s, i + 1, i + n))]
        m == MatchHere(r, s, i + n, taken)
    IN IF m.ok THEN m
       ELSE IF n = 0 THEN Fail
       ELSE MatchStar(e, r, s, i, n - 1, caps)

\* n groups none of which has taken part
RECURSIVE NoCaptures(_)
NoCaptures(n) == IF n = 0 THEN <<>> ELSE Append(NoCaptures(n - 1), None)

\* the match starting at the leftmost position that has one
RECURSIVE MatchAt(_, _, _)
MatchAt(re, s, start) ==
    LET m == MatchHere(re.prog, s, start, NoCaptures(re.ngroups))
    IN IF m.ok THEN [ok |-> TRUE, caps |-> m.caps, start |-> start, end |-> m.end]
       ELSE IF start = Len(s) THEN Fail
       ELSE MatchAt(re, s, start + 1)

\* Regex::captures: None, or Some of the groups 0..ngroups as a sequence
\* whose element g + 1 is group g: Some(the text it matched), or None if
\* the group did not take part.  Group 0 is the whole match.
Captures(re, s) ==
    LET m == MatchAt(re, s, 0)
    IN IF ~m.ok THEN None
       ELSE Some(<<Some(SubSeq(s, m.start + 1, m.end))>> \o m.caps)

(***************************************************************************)
(* Template substitution                                                   *)
(***************************************************************************)
\* The HashMap find_replacement folds the captures into: key index.to_string(),
\* value the group's text, or the empty string for a group that did not
\* take part.
CaptureVarsParticipating(caps) ==
    [k \in {IndexToString(i - 1) : i \in {j \in 1..Len(caps) : caps[j].some}} |->
        LET i == CHOOSE j \in 1..Len(caps) : IndexToString(j - 1) = k
        IN caps[i].v]

CaptureVars(caps) ==
    [k \in {IndexToString(i - 1) : i \in 1..Len(caps)} |->
        LET i == CHOOSE j \in 1..Len(caps) : IndexToString(j - 1) = k
        IN IF caps[i].some THEN caps[i].v ELSE <<>>]

\* strfmt::strfmt, one character at a time.  reading: an opening brace has
\* been read and the key is being collected; closing: a closing brace
\* outside a key has been read.  A doubled brace stands for the brace
\* itself.  The templates of the model give no format specification, so the
\* text between the braces is the key.
RECURSIVE StrfmtScan(_, _, _, _, _, _)
StrfmtScan(fmt, map, out, reading, key, closing) ==
    IF fmt = <<>>
    THEN IF closing \/ reading THEN [ok |-> FALSE, out |-> <<>>]
         ELSE [ok |-> TRUE, out |-> out]
    ELSE LET c == Head(fmt)
             r == Tail(fmt)
         IN CASE c = "{" ->
                   IF reading /\ key = <<>>
                   THEN StrfmtScan(r, map, Append(out, c), FALSE, <<>>, closing)
                   ELSE IF ~reading
                   THEN StrfmtScan(r, map, out, TRUE, <<>>, closing)
                   ELSE [ok |-> FALSE, out |-> <<>>]
              [] c = "}" ->
                   IF ~reading /\ ~closing
                   THEN StrfmtScan(r, map, out, reading, key, TRUE)
                   ELSE IF closing
                   THEN StrfmtScan(r, map, Append(out, c), reading, key, FALSE)
                   ELSE IF key \in DOMAIN map
                   THEN StrfmtScan(r, map, out \o map[key], FALSE, <<>>, closing)
                   ELSE [ok |-> FALSE, out |-> <<>>]
              [] OTHER ->
                   IF closing THEN [ok |-> FALSE, out |-> <<>>]
                   ELSE IF ~reading
                   THEN StrfmtScan(r, map, Append(out, c), reading, key, closing)
                   ELSE StrfmtScan(r, map, out, reading, Append(key, c), closing)

Strfmt(fmt, map) == StrfmtScan(fmt, map, <<>>, FALSE, <<>>, FALSE)

(***************************************************************************)
(* The handler                                                             *)
(***************************************************************************)
\* DomainConversionHandler::new
HandlerNew(replacements) == [replacements |-> replacements]

\* find_replacement: find_map over the replacements in order.  The closure
\* runs for the first replacement whose pattern matches and unwraps what
\* strfmt returns: "Some" with the text, or "Panic" if strfmt failed.  With
\* no match the result is "None".
FindReplacementLast(replacements, name) ==
    LET s == ToUtf8(name)
        hits == {i \in 1..Len(replacements) : Captures(replacements[i].from, s).some}
    IN IF hits = {} THEN [tag |-> "None", v |-> <<>>]
       ELSE LET i == CHOOSE j \in hits : \A k \in hits : k <= j
                f == Strfmt(replacements[i].to,
                            CaptureVars(Captures(replacements[i].from, s).v))
            IN IF f.ok THEN [tag |-> "Some", v |-> f.out]
               ELSE [tag |-> "Panic", v |-> <<>>]

RECURSIVE FindReplacementFallThrough(_, _)
FindReplacementFallThrough(replacements, name) ==
    IF replacements = <<>> THEN [tag |-> "None", v |-> <<>>]
    ELSE LET caps == Captures(Head(replacements).from, ToUtf8(name))
             f == Strfmt(Head(replacements).to, CaptureVars(caps.v))
         IN IF caps.some /\ f.ok THEN [tag |-> "Some", v |-> f.out]
            ELSE FindReplacementFallThrough(Tail(replacements), name)

RECURSIVE FindReplacement(_, _)
FindReplacement(replacements, name) ==
    IF replacements = <<>> THEN [tag |-> "None", v |-> <<>>]
    ELSE LET caps == Captures(Head(replacements).from, ToUtf8(name))
         IN IF caps.some
            THEN LET f == Strfmt(Head(replacements).to, CaptureVars(caps.v))
                 IN IF f.ok THEN [tag |-> "Some", v |-> f.out]
                    ELSE [tag |-> "Panic", v |-> <<>>]
            ELSE FindReplacement(Tail(replacements), name)

\* Name::from_utf8: the labels between the dots; an empty label or a
\* character a label may not hold is an error.  "." alone is the root.  The
\* name is fully qualified if the text ends with a dot.  (Labels longer than
\* 63 bytes are errors too; no text of the model is that long.  The texts of
\* the model are lowercase, so the case mapping of the conversion shows in
\* nothing.)
RECURSIVE NameScan(_, _, _)
NameScan(s, labels, label) ==
    IF s = <<>>
    THEN [ok |-> TRUE, labels |-> IF label = <<>> THEN labels ELSE Append(labels, label)]
    ELSE LET c == Head(s)
         IN IF c = "."
            THEN IF label = <<>> THEN [ok |-> FALSE, labels |-> <<>>]
                 ELSE NameScan(Tail(s), Append(labels, label), <<>>)
            ELSE IF c \in {"{", "}"} THEN [ok |-> FALSE, labels |-> <<>>]
            ELSE NameScan(Tail(s), labels, Append(label, c))

NameFromUtf8(s) ==
    IF s = <<".">> THEN [ok |-> TRUE, labels |-> <<>>, fqdn |-> TRUE]
    ELSE LET r == NameScan(s, <<>>, <<>>)
         IN [ok |-> r.ok, labels |-> r.labels,
             fqdn |-> r.ok /\ s # <<>> /\ s[Len(s)] = "."]

\* the TTL of the CNAME record
CnameTtl == 300

EligibleTypes == {"A", "AAAA", "ANY"}

\* handle_request up to the record: the first query's type is looked at,
\* find_replacement is called for an eligible one, and its text becomes the
\* target of a CNAME record owned by the query name.  called: whether
\* find_replacement ran; new_value: what it returned; panic: whether an
\* unwrap (of strfmt's result, of Name::from_utf8's) panicked.
NoRecord == [name |-> <<>>, ttl |-> 0, rtype |-> "", target |-> <<>>, fqdn |-> FALSE]

DecideRecordWith(replacements, queries, types) ==
    IF queries = <<>>
    THEN [panic |-> FALSE, called |-> FALSE, new_value |-> None, record |-> None]
    ELSE LET query == queries[1]
         IN IF query.query_type \in types
            THEN LET found == FindReplacement(replacements, query.name)
                     target == NameFromUtf8(found.v)
                 IN IF found.tag = "Panic"
                    THEN [panic |-> TRUE, called |-> TRUE, new_value |-> None,
                          record |-> None]
                    ELSE IF found.tag = "None"
                    THEN [panic |-> FALSE, called |-> TRUE, new_value |-> None,
                          record |-> None]
                    ELSE IF ~target.ok
                    THEN [panic |-> TRUE, called |-> TRUE, new_value |-> Some(found.v),
                          record |-> None]
                    ELSE [panic |-> FALSE, called |-> TRUE, new_value |-> Some(found.v),
                          record |-> Some([name |-> query.name, ttl |-> CnameTtl,
                                           rtype |-> "CNAME", target |-> target.labels,
                                           fqdn |-> target.fqdn])]
            ELSE [panic |-> FALSE, called |-> FALSE, new_value |-> None, record |-> None]

DecideRecordAnyType(replacements, queries) ==
    DecideRecordWith(replacements, queries, EligibleTypes \cup {"MX"})

DecideRecord(replacements, queries) ==
    DecideRecordWith(replacements, queries, EligibleTypes)

\* handle_request from the record on: the response that is sent
BuildResponseAlwaysAnswer(record) ==
    [rcode |-> "NoError", answers |-> <<IF record.some THEN record.v ELSE NoRecord>>]

BuildResponse(record) ==
    IF record.some
    THEN [rcode |-> "NoError", answers |-> <<record.v>>]
    ELSE [rcode |-> "NXDomain", answers |-> <<>>]

(***************************************************************************)
(* Configuration                                                           *)
(***************************************************************************)
\* serde's deserialization of the replacements, in order: the first entry
\* whose pattern does not compile fails the whole list
RECURSIVE DeserializeReplacements(_)
DeserializeReplacements(entries) ==
    IF entries = <<>> THEN [ok |-> TRUE, v |-> <<>>]
    ELSE LET re == RegexNew(Head(entries).from)
             rest == DeserializeReplacements(Tail(entries))
         IN IF re.ok /\ rest.ok
            THEN [ok |-> TRUE,
                  v |-> <<[from |-> re, to |-> Head(entries).to]>> \o rest.v]
            ELSE [ok |-> FALSE, v |-> <<>>]

RECURSIVE DeserializeSkippingBad(_)
DeserializeSkippingBad(entries) ==
    IF entries = <<>> THEN [ok |-> TRUE, v |-> <<>>]
    ELSE LET re == RegexNew(Head(entries).from)
             rest == DeserializeSkippingBad(Tail(entries))
         IN IF re.ok
            THEN [ok |-> TRUE,
                  v |-> <<[from |-> re, to |-> Head(entries).to]>> \o rest.v]
            ELSE rest

\* Config::load_from_json
LoadFromJsonSkippingBad(text) ==
    IF ~text.wellFormed THEN [ok |-> FALSE, v |-> <<>>]
    ELSE DeserializeSkippingBad(text.replacements)

LoadFromJson(text) ==
    IF ~text.wellFormed THEN [ok |-> FALSE, v |-> <<>>]
    ELSE DeserializeReplacements(text.replacements)

(***************************************************************************)
(* Inputs                                                                  *)
(***************************************************************************)
Rule(from, to) == [from |-> from, to |-> to]

\* "^.*$" to "b.a."
RuleAll == Rule(<<"^", ".*", "$">>, <<"b", ".", "a", ".">>)
\* "^(.*)\.b.?$" to "{1}.a."
RuleOne == Rule(<<"^", "(.*)", "\\.", "b", ".?", "$">>, <<"{", "1", "}", ".", "a", ".">>)
\* "^(.*)\.(.*)\.$" to "{2}.{1}."
RuleSwap == Rule(<<"^", "(.*)", "\\.", "(.*)", "\\.", "$">>,
                 <<"{", "2", "}", ".", "{", "1", "}", ".">>)
\* "^(.*)\.b.?$" to "{2}.a.": the pattern has no group 2
RuleMissing == Rule(<<"^", "(.*)", "\\.", "b", ".?", "$">>, <<"{", "2", "}", ".", "a", ".">>)
\* "^(b)?(.*)$" to "{2}{1}": group 1 takes no part unless the name starts with b
RuleOptional == Rule(<<"^", "(b)?", "(.*)", "$">>, <<"{", "2", "}", "{", "1", "}">>)
\* "^a\.$" to "{{{0}}}": doubled braces around group 0
RuleBraces == Rule(<<"^", "a", "\\.", "$">>, <<"{", "{", "{", "0", "}", "}", "}">>)
\* "(": does not compile
RuleBad == Rule(<<"(">>, <<"b", ".", "a", ".">>)

RuleSources ==
    {RuleAll, RuleOne, RuleSwap, RuleMissing, RuleOptional, RuleBraces, RuleBad}

SeqsUpTo(S, n) == UNION {[1..k -> S] : k \in 0..n}

\* the files main() may be started on: one that cannot be read, one that
\* is not JSON of the Config shape, and one per list of replacements
ConfigFiles(n) ==
    {[readable |-> FALSE, text |-> [wellFormed |-> FALSE, replacements |-> <<>>]],
     [readable |-> TRUE, text |-> [wellFormed |-> FALSE, replacements |-> <<>>]]}
    \cup {[readable |-> TRUE, text |-> [wellFormed |-> TRUE, replacements |-> rs]] :
            rs \in SeqsUpTo(RuleSources, n)}

Labels == {<<"a">>, <<"b">>, <<"B">>}

QueryTypes == {"A", "AAAA", "ANY", "MX"}

\* the query types of the specification with two concurrent tasks
ConcQueryTypes == {"A", "MX"}

\* the query lists of a request: none, or one query
QueryLists(n, types) ==
    {<<>>} \cup {<<[original |-> nm, query_type |-> ty]>> :
                    nm \in SeqsUpTo(Labels, n), ty \in types}

\* the LowerQuery the server hands to the handler: the name lowercased
RECURSIVE LowerQueries(_)
LowerQueries(queries) ==
    IF queries = <<>> THEN <<>>
    ELSE <<[original |-> Head(queries).original,
            name |-> LowerNameFrom(Head(queries).original),
            query_type |-> Head(queries).query_type]>>
         \o LowerQueries(Tail(queries))

(***************************************************************************)
(* The process                                                             *)
(***************************************************************************)
IdleTask ==
    [st |-> "idle", queries |-> <<>>, called |-> FALSE, new_value |-> None,
     record |-> None, response |-> None, sent |-> 0]

InitWith(files, ids) ==
    /\ pc = "start"
    /\ configFile \in files
    /\ json = None
    /\ config = None
    /\ socketBound = FALSE
    /\ handler = None
    /\ tasks = [t \in ids |-> IdleTask]

\* main: std::fs::read_to_string(args.config_file)?
ReadConfigFile ==
    /\ pc = "start"
    /\ IF configFile.readable
       THEN json' = Some(configFile.text) /\ pc' = "read"
       ELSE json' = json /\ pc' = "exit_err"
    /\ UNCHANGED <<configFile, config, socketBound, handler, tasks>>

\* main: Config::load_from_json(&json)?
LoadConfig ==
    /\ pc = "read"
    /\ LET r == LoadFromJson(json.v)
       IN IF r.ok
          THEN config' = Some([replacements |-> r.v]) /\ pc' = "loaded"
          ELSE config' = config /\ pc' = "exit_err"
    /\ UNCHANGED <<configFile, json, socketBound, handler, tasks>>

\* main: create_server(config).await?  The bind succeeds or fails.
CreateServer ==
    /\ pc = "loaded"
    /\ \E bound \in BOOLEAN :
        IF bound
        THEN /\ socketBound' = TRUE
             /\ handler' = Some(HandlerNew(config.v.replacements))
             /\ pc' = "running"
        ELSE /\ socketBound' = socketBound
             /\ handler' = handler
             /\ pc' = "exit_err"
    /\ UNCHANGED <<configFile, json, config, tasks>>

\* the server spawns a task to handle a request it received
Receive(t, queries) ==
    /\ pc = "running"
    /\ tasks[t].st = "idle"
    /\ tasks' = [tasks EXCEPT ![t] =
                    [IdleTask EXCEPT !.st = "start", !.queries = LowerQueries(queries)]]
    /\ UNCHANGED <<pc, configFile, json, config, socketBound, handler>>

DecidePoisoning(t) ==
    /\ tasks[t].st = "start"
    /\ LET d == DecideRecord(handler.v.replacements, tasks[t].queries)
       IN tasks' = [u \in DOMAIN tasks |->
                       IF u = t
                       THEN [tasks[t] EXCEPT
                               !.st = IF d.panic THEN "panicked" ELSE "send",
                               !.called = d.called,
                               !.new_value = d.new_value,
                               !.record = d.record]
                       ELSE IF d.panic /\ tasks[u].st \in {"start", "send"}
                       THEN [tasks[u] EXCEPT !.st = "panicked"]
                       ELSE tasks[u]]
    /\ UNCHANGED <<pc, configFile, json, config, socketBound, handler>>

\* handle_request, to the record
Decide(t) ==
    /\ tasks[t].st = "start"
    /\ LET d == DecideRecord(handler.v.replacements, tasks[t].queries)
       IN tasks' = [tasks EXCEPT ![t] =
                       [@ EXCEPT !.st = IF d.panic THEN "panicked" ELSE "send",
                                 !.called = d.called,
                                 !.new_value = d.new_value,
                                 !.record = d.record]]
    /\ UNCHANGED <<pc, configFile, json, config, socketBound, handler>>

\* handle_request, sending the response
Send(t) ==
    /\ tasks[t].st = "send"
    /\ tasks' = [tasks EXCEPT ![t] =
                    [@ EXCEPT !.st = "done",
                              !.response = Some(BuildResponse(tasks[t].record)),
                              !.sent = @ + 1]]
    /\ UNCHANGED <<pc, configFile, json, config, socketBound, handler>>

\* the task has ended (it returned, or its panic unwound it) and is dropped
Retire(t) ==
    /\ tasks[t].st \in {"done", "panicked"}
    /\ tasks' = [tasks EXCEPT ![t] = IdleTask]
    /\ UNCHANGED <<pc, configFile, json, config, socketBound, handler>>

Init == InitWith(ConfigFiles(MaxRules), {1})

Next ==
    \/ ReadConfigFile
    \/ LoadConfig
    \/ CreateServer
    \/ \E t \in DOMAIN tasks, queries \in QueryLists(MaxLabels, QueryTypes) :
            Receive(t, queries)
    \/ \E t \in DOMAIN tasks : Decide(t)
    \/ \E t \in DOMAIN tasks : Send(t)
    \/ \E t \in DOMAIN tasks : Retire(t)

Spec == Init /\ [][Next]_vars

\* two tasks at a time
ConcInit == InitWith(ConfigFiles(MaxConcRules), {1, 2})

ConcNext ==
    \/ ReadConfigFile
    \/ LoadConfig
    \/ CreateServer
    \/ \E t \in DOMAIN tasks, queries \in QueryLists(MaxConcLabels, ConcQueryTypes) :
            Receive(t, queries)
    \/ \E t \in DOMAIN tasks : Decide(t)
    \/ \E t \in DOMAIN tasks : Send(t)
    \/ \E t \in DOMAIN tasks : Retire(t)

ConcSpec == ConcInit /\ [][ConcNext]_vars

\* handle_request run from start to end on its own
HandleAlone(replacements, queries) ==
    LET d == DecideRecord(replacements, queries)
    IN [IdleTask EXCEPT
          !.st = IF d.panic THEN "panicked" ELSE "done",
          !.queries = queries,
          !.called = d.called,
          !.new_value = d.new_value,
          !.record = d.record,
          !.response = IF d.panic THEN None ELSE Some(BuildResponse(d.record)),
          !.sent = IF d.panic THEN 0 ELSE 1]

(***************************************************************************)
(* Properties                                                              *)
(***************************************************************************)
TaskIds == DOMAIN tasks

Rules == handler.v.replacements

Decided(t) == tasks[t].st \in {"send", "done", "panicked"}

Query(t) == tasks[t].queries[1]

Eligible(t) ==
    /\ tasks[t].queries # <<>>
    /\ Query(t).query_type \in {"A", "AAAA", "ANY"}

QName(t) == ToUtf8(Query(t).name)

RuleMatches(rule, t) == Captures(rule.from, QName(t)).some

MatchingRules(t) == {i \in 1..Len(Rules) : RuleMatches(Rules[i], t)}

FirstMatching(t) == CHOOSE i \in MatchingRules(t) : \A k \in MatchingRules(t) : i <= k

\* the rule's template with the captures of the rule's match of the name
Substituted(rule, t) ==
    Strfmt(rule.to, CaptureVars(Captures(rule.from, QName(t)).v))

RespondedNxDomain(t) ==
    /\ tasks[t].response.some
    /\ tasks[t].response.v.rcode = "NXDomain"
    /\ tasks[t].response.v.answers = <<>>

RespondedCname(t) ==
    /\ tasks[t].response.some
    /\ tasks[t].response.v.rcode = "NoError"
    /\ Len(tasks[t].response.v.answers) = 1
    /\ tasks[t].response.v.answers[1].rtype = "CNAME"

\* C1: for an eligible query whose name some rule matches, the decision
\* comes from the matching rule of smallest index alone: the text the
\* matcher returns is that rule's template with that rule's captures, the
\* CNAME target is that text as a name, and the task ends as it would with
\* that rule as the only rule.
C1_FirstMatchDecides ==
    \A t \in TaskIds :
        (Decided(t) /\ Eligible(t) /\ MatchingRules(t) # {}) =>
            LET rule == Rules[FirstMatching(t)]
                sub == Substituted(rule, t)
                alone == DecideRecord(<<rule>>, tasks[t].queries)
            IN /\ tasks[t].called
               /\ tasks[t].new_value = (IF sub.ok THEN Some(sub.out) ELSE None)
               /\ tasks[t].record = alone.record
               /\ (tasks[t].st = "panicked") = alone.panic
               /\ tasks[t].record.some =>
                    /\ sub.ok
                    /\ NameFromUtf8(sub.out).ok
                    /\ tasks[t].record.v.target = NameFromUtf8(sub.out).labels
               /\ tasks[t].st = "done" =>
                    IF tasks[t].record.some
                    THEN /\ RespondedCname(t)
                         /\ tasks[t].response.v.answers[1].target
                                = NameFromUtf8(sub.out).labels
                    ELSE FALSE

\* a CNAME was sent for a name that two rules match, and the later rule
\* would have given another target
C1_Witness ==
    \E t \in TaskIds :
        /\ tasks[t].st = "done"
        /\ Eligible(t)
        /\ RespondedCname(t)
        /\ \E k \in MatchingRules(t) :
            /\ k > FirstMatching(t)
            /\ Substituted(Rules[k], t).ok
            /\ NameFromUtf8(Substituted(Rules[k], t).out).ok
            /\ NameFromUtf8(Substituted(Rules[k], t).out).labels
                    # tasks[t].response.v.answers[1].target

\* C2: a request with no query, or whose first query has a type other than
\* A, AAAA and ANY, never has find_replacement called, never panics, has no
\* record and is answered NXDOMAIN, whatever the name and the rules.
C2_IneligibleIsNxDomain ==
    \A t \in TaskIds :
        (tasks[t].st # "idle" /\ ~Eligible(t)) =>
            /\ ~tasks[t].called
            /\ tasks[t].st # "panicked"
            /\ ~tasks[t].new_value.some
            /\ ~tasks[t].record.some
            /\ tasks[t].st = "done" => RespondedNxDomain(t)

\* NXDOMAIN was sent for a query of another type whose name a rule matches
C2_Witness ==
    \E t \in TaskIds :
        /\ tasks[t].st = "done"
        /\ tasks[t].queries # <<>>
        /\ Query(t).query_type = "MX"
        /\ MatchingRules(t) # {}
        /\ Substituted(Rules[FirstMatching(t)], t).ok
        /\ RespondedNxDomain(t)

\* C3: an eligible query whose name no rule matches never gets a record:
\* the matcher returns nothing, the task does not panic, and the response
\* is NXDOMAIN with no answer.
C3_NoMatchIsNxDomain ==
    \A t \in TaskIds :
        (Decided(t) /\ Eligible(t) /\ MatchingRules(t) = {}) =>
            /\ tasks[t].called
            /\ tasks[t].st # "panicked"
            /\ ~tasks[t].new_value.some
            /\ ~tasks[t].record.some
            /\ tasks[t].st = "done" => RespondedNxDomain(t)

\* NXDOMAIN was sent for an eligible query under rules none of which matches
C3_Witness ==
    \E t \in TaskIds :
        /\ tasks[t].st = "done"
        /\ Eligible(t)
        /\ Rules # <<>>
        /\ MatchingRules(t) = {}
        /\ RespondedNxDomain(t)

IsDigit(c) == c \in {"0", "1", "2", "3", "4", "5", "6", "7", "8", "9"}

\* whether template[i..j] is a placeholder: an opening brace, digits, a
\* closing brace
IsPlaceholder(template, i, j) ==
    /\ i + 1 < j
    /\ template[i] = "{"
    /\ template[j] = "}"
    /\ \A k \in (i + 1)..(j - 1) : IsDigit(template[k])

PlaceholderKeys(template) ==
    {SubSeq(template, i + 1, j - 1) :
        <<i, j>> \in {p \in (1..Len(template)) \X (1..Len(template)) :
                        IsPlaceholder(template, p[1], p[2])}}

GroupKeys(rule) == {IndexToString(g) : g \in 0..rule.from.ngroups}

\* the template names a group the pattern does not have
MissingPlaceholder(rule) == \E key \in PlaceholderKeys(rule.to) : key \notin GroupKeys(rule)

\* C4 (as claimed): when the template of the first matching rule names a
\* group the pattern does not have, the task does not panic, has no record
\* and answers NXDOMAIN.
C4_MissingGroupIsNxDomain ==
    \A t \in TaskIds :
        (Decided(t) /\ Eligible(t) /\ MatchingRules(t) # {}
            /\ MissingPlaceholder(Rules[FirstMatching(t)])) =>
            /\ tasks[t].st # "panicked"
            /\ ~tasks[t].record.some
            /\ tasks[t].st = "done" => RespondedNxDomain(t)

\* C5: the name the matcher sees is lowercase, and the decision for a query
\* is the decision for every query of the same type whose name has the
\* same letters in another case.
SameLettersIgnoringCase(m, n) ==
    /\ Len(m) = Len(n)
    /\ \A i \in 1..Len(m) :
        /\ Len(m[i]) = Len(n[i])
        /\ \A j \in 1..Len(m[i]) : ToLowerChar(m[i][j]) = ToLowerChar(n[i][j])

Decision(d) == [panic |-> d.panic, new_value |-> d.new_value, record |-> d.record]

C5_CaseInsensitive ==
    \A t \in TaskIds :
        (Decided(t) /\ Eligible(t)) =>
            /\ \A i \in 1..Len(Query(t).name) : \A j \in 1..Len(Query(t).name[i]) :
                    Query(t).name[i][j] \notin {"A", "B"}
            /\ \A m \in [1..Len(Query(t).original) -> Labels] :
                SameLettersIgnoringCase(m, Query(t).original) =>
                    Decision(DecideRecord(Rules,
                        LowerQueries(<<[original |-> m,
                                        query_type |-> Query(t).query_type]>>)))
                    = [panic |-> tasks[t].st = "panicked",
                       new_value |-> tasks[t].new_value,
                       record |-> tasks[t].record]

\* a CNAME was sent for a name with a capital letter that the matching
\* rule does not match as it was written
C5_Witness ==
    \E t \in TaskIds :
        /\ tasks[t].st = "done"
        /\ Eligible(t)
        /\ RespondedCname(t)
        /\ Query(t).original # Query(t).name
        /\ ~Captures(Rules[FirstMatching(t)].from, ToUtf8(Query(t).original)).some

\* C6: if the file cannot be read, is not well-formed, or holds an entry
\* whose pattern does not compile, main() gets no Config, creates no handler,
\* binds no socket, handles no request, and stops nowhere but in its error
\* exit; a Config that was loaded holds the file's entries in their order,
\* and the handler holds the Config's.
BadConfigFile ==
    \/ ~configFile.readable
    \/ ~configFile.text.wellFormed
    \/ \E i \in 1..Len(configFile.text.replacements) :
            ~RegexNew(configFile.text.replacements[i].from).ok

C6_FailFastStartup ==
    /\ BadConfigFile =>
        /\ pc \in {"start", "read", "exit_err"}
        /\ ~config.some
        /\ ~handler.some
        /\ ~socketBound
        /\ \A t \in TaskIds : tasks[t] = IdleTask
        /\ pc = "exit_err" \/ ENABLED (ReadConfigFile \/ LoadConfig)
    /\ config.some =>
        /\ Len(config.v.replacements) = Len(configFile.text.replacements)
        /\ \A i \in 1..Len(config.v.replacements) :
            /\ config.v.replacements[i].to = configFile.text.replacements[i].to
            /\ config.v.replacements[i].from
                    = RegexNew(configFile.text.replacements[i].from)
    /\ handler.some => config.some /\ handler.v.replacements = config.v.replacements
    /\ (\E t \in TaskIds : tasks[t] # IdleTask) => socketBound /\ handler.some

\* main() ended in error on a file whose first entry compiles and whose
\* second does not
C6_Witness ==
    /\ pc = "exit_err"
    /\ configFile.readable
    /\ configFile.text.wellFormed
    /\ Len(configFile.text.replacements) = 2
    /\ RegexNew(configFile.text.replacements[1].from).ok
    /\ ~RegexNew(configFile.text.replacements[2].from).ok

\* C7: the handler is never written once it exists; a step of one task
\* leaves every other task as it was; and a task ends as handle_request
\* run on its own ends for the same rules and query.
C7_TasksIndependent ==
    [][/\ handler.some => handler' = handler
       /\ \A t \in TaskIds :
            tasks'[t].st \in {"done", "panicked"} =>
                tasks'[t] = HandleAlone(handler'.v.replacements, tasks'[t].queries)
       /\ \A t \in TaskIds :
            tasks'[t] # tasks[t] => \A u \in TaskIds \ {t} : tasks'[u] = tasks[u]
      ]_vars

\* one task has panicked while another sent its CNAME
C7_Witness ==
    \E t \in TaskIds, u \in TaskIds :
        /\ t # u
        /\ tasks[t].st = "panicked"
        /\ tasks[u].st = "done"
        /\ RespondedCname(u)

\* C8: when the substitution of the first matching rule fails, the matcher
\* returns nothing and no record or CNAME response is ever built, whatever
\* the later rules are.
C8_NoFallThrough ==
    \A t \in TaskIds :
        (Decided(t) /\ Eligible(t) /\ MatchingRules(t) # {}
            /\ ~Substituted(Rules[FirstMatching(t)], t).ok) =>
            /\ ~tasks[t].new_value.some
            /\ ~tasks[t].record.some
            /\ ~RespondedCname(t)
            /\ tasks[t].st = "panicked"

\* the substitution of the first matching rule failed and a later rule
\* matches the name and would have given a target
C8_Witness ==
    \E t \in TaskIds :
        /\ Decided(t)
        /\ Eligible(t)
        /\ MatchingRules(t) # {}
        /\ ~Substituted(Rules[FirstMatching(t)], t).ok
        /\ \E k \in MatchingRules(t) :
            /\ k > FirstMatching(t)
            /\ Substituted(Rules[k], t).ok
            /\ NameFromUtf8(Substituted(Rules[k], t).out).ok

\* the template with each placeholder replaced by its group's text (nothing
\* for a group that took no part) and every other character copied
RECURSIVE SpecSubstitute(_, _)
SpecSubstitute(template, caps) ==
    IF template = <<>> THEN <<>>
    ELSE LET ends == {j \in 1..Len(template) : IsPlaceholder(template, 1, j)}
         IN IF ends # {}
            THEN LET j == CHOOSE e \in ends : TRUE
                     g == CHOOSE i \in 1..Len(caps) :
                            IndexToString(i - 1) = SubSeq(template, 2, j - 1)
                 IN (IF caps[g].some THEN caps[g].v ELSE <<>>)
                    \o SpecSubstitute(SubSeq(template, j + 1, Len(template)), caps)
            ELSE <<Head(template)>> \o SpecSubstitute(Tail(template), caps)

\* every brace of the template is a brace of a placeholder
RECURSIVE PlaceholderBracesOnly(_)
PlaceholderBracesOnly(template) ==
    IF template = <<>> THEN TRUE
    ELSE LET ends == {j \in 1..Len(template) : IsPlaceholder(template, 1, j)}
         IN IF ends # {}
            THEN PlaceholderBracesOnly(
                    SubSeq(template, (CHOOSE e \in ends : TRUE) + 1, Len(template)))
            ELSE Head(template) \notin {"{", "}"}
                 /\ PlaceholderBracesOnly(Tail(template))

\* the capture map of the first matching rule has one entry per group of the
\* pattern, keyed by the group's index: the group's text, or the empty
\* string for a group that took no part
CaptureMapIsComplete(t) ==
    LET rule == Rules[FirstMatching(t)]
        caps == Captures(rule.from, QName(t)).v
        map == CaptureVars(caps)
    IN /\ Len(caps) = rule.from.ngroups + 1
       /\ caps[1].some
       /\ DOMAIN map = GroupKeys(rule)
       /\ \A g \in 0..rule.from.ngroups :
            map[IndexToString(g)] = (IF caps[g + 1].some THEN caps[g + 1].v ELSE <<>>)

\* C9 (as claimed): the capture map is complete, and when the template
\* names only groups the pattern has, the matcher returns the template with
\* its placeholders replaced and every other character copied.
C9_VerbatimSubstitution ==
    \A t \in TaskIds :
        (Decided(t) /\ Eligible(t) /\ MatchingRules(t) # {}) =>
            LET rule == Rules[FirstMatching(t)]
            IN /\ CaptureMapIsComplete(t)
               /\ ~MissingPlaceholder(rule) =>
                    /\ Substituted(rule, t).ok
                    /\ tasks[t].new_value
                        = Some(SpecSubstitute(rule.to, Captures(rule.from, QName(t)).v))

\* C9 (amended): the same, for the templates whose only braces are those
\* of their placeholders.
C9_VerbatimWithoutOtherBraces ==
    \A t \in TaskIds :
        (Decided(t) /\ Eligible(t) /\ MatchingRules(t) # {}) =>
            LET rule == Rules[FirstMatching(t)]
            IN /\ CaptureMapIsComplete(t)
               /\ (~MissingPlaceholder(rule) /\ PlaceholderBracesOnly(rule.to)) =>
                    /\ Substituted(rule, t).ok
                    /\ tasks[t].new_value
                        = Some(SpecSubstitute(rule.to, Captures(rule.from, QName(t)).v))

\* the matcher returned a text for a template that names a group which
\* took no part in the match
C9_Witness ==
    \E t \in TaskIds :
        /\ Decided(t)
        /\ Eligible(t)
        /\ MatchingRules(t) # {}
        /\ tasks[t].new_value.some
        /\ LET rule == Rules[FirstMatching(t)]
               caps == Captures(rule.from, QName(t)).v
           IN \E g \in 1..rule.from.ngroups :
                /\ ~caps[g + 1].some
                /\ IndexToString(g) \in PlaceholderKeys(rule.to)

\* C10 (as claimed): no task panics; a task that has ended has sent one
\* response, which is a single CNAME record owned by the query name with
\* TTL 300 and the matcher's text as target if the matcher returned a text,
\* and NXDOMAIN otherwise.
C10_OneResponsePerRequest ==
    \A t \in TaskIds :
        /\ tasks[t].st # "panicked"
        /\ tasks[t].st \in {"start", "send"} => tasks[t].sent = 0
        /\ tasks[t].st = "done" =>
            /\ tasks[t].sent = 1
            /\ IF tasks[t].new_value.some
               THEN /\ RespondedCname(t)
                    /\ tasks[t].response.v.answers[1].name = Query(t).name
                    /\ tasks[t].response.v.answers[1].ttl = 300
                    /\ tasks[t].response.v.answers[1].target
                            = NameFromUtf8(tasks[t].new_value.v).labels
               ELSE RespondedNxDomain(t)

====
